---- MODULE Spec2Model ----
(***************************************************************************)
(* A model of ini.c (src/ini.c, src/ini.h): a document of INI sections and *)
(* key/value pairs held in singly linked lists, the insert / lookup / put  *)
(* / set operations on it, the line parser, the writer and the traversal.  *)
(*                                                                         *)
(* A C string is the sequence of its bytes.  A linked list (head, next,    *)
(* next, ..., NULL) is the sequence of its nodes.  A pointer to a node is  *)
(* the node's id, a number given to it when it is allocated; 0 is the NULL *)
(* pointer.  The heap is the set of the blocks that calloc and strdup have *)
(* returned and free has not yet been given.                               *)
(***************************************************************************)
EXTENDS Integers, Sequences, FiniteSets, TLC

VARIABLES ini, nextId, last, heap

vars == <<ini, nextId, last, heap>>

----------------------------------------------------------------------------
(* Bounds of the model.                                                    *)

\* objects (sections and pairs) allocated after makeini() in one run
MaxAlloc == 2
\* lines of one input file
MaxLines == 2
\* lines of one text file
MaxText == 3
\* bytes of the longest field of a long line
MaxField == 257

----------------------------------------------------------------------------
(* Bytes and strings.                                                      *)

\* the bytes the model's strings are made of (ASCII codes)
Ch == [nl |-> 10, sp |-> 32, one |-> 49, two |-> 50, semi |-> 59, eq |-> 61,
       S |-> 83, T |-> 84, lb |-> 91, rb |-> 93, a |-> 97, b |-> 98]

\* the NULL char*: the one-byte sequence <<0>>, which no C string is
NULL == <<0>>

\* the NULL struct pointer
NULLPTR == 0

Min(x, y) == IF x < y THEN x ELSE y

\* strcmp(3): the sign of the first differing byte; the end of a string
\* (its NUL) is below every byte
RECURSIVE strcmp(_, _)
strcmp(s1, s2) ==
  IF s1 = <<>> /\ s2 = <<>> THEN 0
  ELSE IF s1 = <<>> THEN -1
  ELSE IF s2 = <<>> THEN 1
  ELSE IF Head(s1) < Head(s2) THEN -1
  ELSE IF Head(s1) > Head(s2) THEN 1
  ELSE strcmp(Tail(s1), Tail(s2))

----------------------------------------------------------------------------
(* Constructors.                                                           *)

\* makesection(name): a section with a copy of the name and no pairs
makesection(id, name) == [id |-> id, name |-> name, head |-> <<>>]

\* makepair(key, val): a pair with copies of key and val (val may be NULL)
makepair(id, key, val) == [id |-> id, key |-> key, val |-> val]

\* makeini(flags): no named section, an empty default section (name NULL)
makeini(flags) ==
  [head |-> <<>>,
   default_section |-> [id |-> 1, name |-> NULL, head |-> <<>>],
   flags |-> flags]

----------------------------------------------------------------------------
(* Heap blocks.                                                            *)

\* a heap block: what it holds and the id of the object it belongs to
Obj(kind, id) == [kind |-> kind, id |-> id]

\* the blocks makesection allocates: the struct (calloc), the name (strdup)
SectionBlocks(id) == {Obj("section", id), Obj("name", id)}

\* the blocks makepair allocates: the struct, the key, the value if any
PairBlocks(pair) ==
  {Obj("pair", pair.id), Obj("key", pair.id)}
    \cup (IF pair.val = NULL THEN {} ELSE {Obj("val", pair.id)})

\* the blocks makeini allocates: the file struct and the default section,
\* whose name is NULL
IniBlocks == {Obj("inifile", 0), Obj("section", 1)}

\* freepair(pair): the blocks it frees (free(NULL) frees nothing)
freepair(pair) == PairBlocks(pair)

\* freepair_r(root): freepair on every pair of the list
freepair_r(list) == UNION {freepair(list[i]) : i \in 1..Len(list)}

\* freesection(sec): its pairs, its name (NULL for the default section),
\* the struct
freesection(sec) ==
  freepair_r(sec.head)
    \cup (IF sec.name = NULL THEN {} ELSE {Obj("name", sec.id)})
    \cup {Obj("section", sec.id)}

\* freesec_r(sec): freesection on every section of the list
freesec_r(list) == UNION {freesection(list[i]) : i \in 1..Len(list)}

\* freeini(ini): the blocks it frees
freeini(file) ==
  freesec_r(<<file.default_section>>) \cup freesec_r(file.head)
    \cup {Obj("inifile", 0)}

\* the heap after a call that allocated the blocks made and then freed the
\* blocks freed; twice collects the blocks freed while not allocated
HeapAfter(h, made, freed) ==
  [live  |-> (h.live \cup made) \ freed,
   twice |-> h.twice \cup (freed \ (h.live \cup made))]

----------------------------------------------------------------------------
(* The two sorted inserts.                                                 *)

\* the loop of section_insert: curr is list[i], prev is list[i-1]; the loop
\* runs while curr->next != NULL, so the last node is never compared
RECURSIVE section_insert_loop(_, _, _)
section_insert_loop(list, sec, i) ==
  IF i < Len(list)
  THEN LET s == strcmp(sec.name, list[i].name) IN
       IF s < 0
       THEN [head |-> SubSeq(list, 1, i - 1) \o <<sec>> \o SubSeq(list, i, Len(list)),
             ret |-> sec.id]
       ELSE IF s = 0
       THEN [head |-> list, ret |-> list[i].id]
       ELSE section_insert_loop(list, sec, i + 1)
  ELSE [head |-> list \o <<sec>>, ret |-> sec.id]

\* section_insert(file, sec): the new file and the returned pointer
section_insert(file, sec) ==
  IF file.head = <<>>
  THEN [ini |-> [file EXCEPT !.head = <<sec>>], ret |-> sec.id]
  ELSE LET r == section_insert_loop(file.head, sec, 1) IN
       [ini |-> [file EXCEPT !.head = r.head], ret |-> r.ret]

\* the loop of pair_insert, with the same loop condition: the new list and
\* the blocks freepair(curr) frees
RECURSIVE pair_insert_loop(_, _, _)
pair_insert_loop(list, pair, i) ==
  IF i < Len(list)
  THEN LET s == strcmp(pair.key, list[i].key) IN
       IF s < 0
       THEN [head |-> SubSeq(list, 1, i - 1) \o <<pair>> \o SubSeq(list, i, Len(list)),
             freed |-> {}]
       ELSE IF s = 0
       THEN [head |-> SubSeq(list, 1, i - 1) \o <<pair>> \o SubSeq(list, i + 1, Len(list)),
             freed |-> freepair(list[i])]
       ELSE pair_insert_loop(list, pair, i + 1)
  ELSE [head |-> list \o <<pair>>, freed |-> {}]

\* pair_insert(sec, pair): the new section, the returned pointer and the
\* blocks freed (those of the pair that was replaced)
pair_insert(sec, pair) ==
  IF sec.head = <<>>
  THEN [sec |-> [sec EXCEPT !.head = <<pair>>], ret |-> pair.id, freed |-> {}]
  ELSE LET r == pair_insert_loop(sec.head, pair, 1) IN
       [sec |-> [sec EXCEPT !.head = r.head], ret |-> pair.id, freed |-> r.freed]

----------------------------------------------------------------------------
(* Lookups.                                                                *)

\* every section of the document, the default section first
AllSections(file) == <<file.default_section>> \o file.head

\* the section a pointer points to
SecAt(file, id) ==
  LET all == AllSections(file) IN
  all[CHOOSE i \in 1..Len(all) : all[i].id = id]

\* the document with the section of sec's id replaced by sec
PutSec(file, sec) ==
  IF file.default_section.id = sec.id
  THEN [file EXCEPT !.default_section = sec]
  ELSE [file EXCEPT !.head =
          [i \in 1..Len(file.head) |->
             IF file.head[i].id = sec.id THEN sec ELSE file.head[i]]]

\* ini_getsection(ini, name): the default section for NULL, else the first
\* section of that name, else NULL
ini_getsection(file, name) ==
  IF name = NULL THEN file.default_section.id
  ELSE LET hits == {i \in 1..Len(file.head) : strcmp(name, file.head[i].name) = 0} IN
       IF hits = {} THEN NULLPTR
       ELSE file.head[CHOOSE i \in hits : \A j \in hits : i <= j].id

\* the first pair of a list with the given key, as a position (0: none)
FirstPos(list, key) ==
  LET hits == {i \in 1..Len(list) : strcmp(key, list[i].key) = 0} IN
  IF hits = {} THEN 0 ELSE CHOOSE i \in hits : \A j \in hits : i <= j

\* inisection_getpair(section, key): the first pair with that key, or NULL
inisection_getpair(sec, key) ==
  IF FirstPos(sec.head, key) = 0 THEN NULLPTR
  ELSE sec.head[FirstPos(sec.head, key)].id

\* ini_getpair(ini, section, key)
ini_getpair(file, section, key) ==
  LET s == ini_getsection(file, section) IN
  IF s = NULLPTR THEN NULLPTR ELSE inisection_getpair(SecAt(file, s), key)

----------------------------------------------------------------------------
(* Values, put and set.                                                    *)

\* pair_setval(pair, val): frees the old value, stores a copy of the new one
\* when it is not NULL; returns the pair's new val pointer.  freed and made
\* are the value blocks given to free and got from strdup.
pair_setval(pair, val) ==
  [pair |-> [pair EXCEPT !.val = val], ret |-> val,
   freed |-> IF pair.val = NULL THEN {} ELSE {Obj("val", pair.id)},
   made  |-> IF val = NULL THEN {} ELSE {Obj("val", pair.id)}]

\* the section with the pair of p's id replaced by p
PutPair(sec, p) ==
  [sec EXCEPT !.head =
     [i \in 1..Len(sec.head) |-> IF sec.head[i].id = p.id THEN p ELSE sec.head[i]]]

\* the pair a pointer points to, in the given section
PairAt(sec, id) == sec.head[CHOOSE i \in 1..Len(sec.head) : sec.head[i].id = id]

\* ini_put with the slip of storing val in a pair that is already there
ini_put_overwriting(file, section, key, val, id) ==
  IF key = NULL
  THEN [ini |-> file, ret |-> NULLPTR, used |-> 0, made |-> {}, freed |-> {}]
  ELSE
    LET s0 == ini_getsection(file, section)
        r1 == IF s0 = NULLPTR
              THEN section_insert(file, makesection(id, section))
              ELSE [ini |-> file, ret |-> s0]
        id1 == IF s0 = NULLPTR THEN id + 1 ELSE id
        m1 == IF s0 = NULLPTR THEN SectionBlocks(id) ELSE {}
        s == SecAt(r1.ini, r1.ret)
        p0 == inisection_getpair(s, key)
    IN IF p0 = NULLPTR
       THEN LET r2 == pair_insert(s, makepair(id1, key, val)) IN
            [ini |-> PutSec(r1.ini, r2.sec), ret |-> r2.ret, used |-> id1 + 1 - id,
             made |-> m1 \cup PairBlocks(makepair(id1, key, val)),
             freed |-> r2.freed]
       ELSE [ini |-> PutSec(r1.ini, PutPair(s, pair_setval(PairAt(s, p0), val).pair)),
             ret |-> p0, used |-> id1 - id,
             made |-> m1 \cup pair_setval(PairAt(s, p0), val).made,
             freed |-> pair_setval(PairAt(s, p0), val).freed]

\* ini_put(ini, section, key, val); id is the next free object id.
\* Result: the new document, the returned pointer, the objects allocated,
\* the heap blocks allocated and freed.
ini_put(file, section, key, val, id) ==
  IF key = NULL
  THEN [ini |-> file, ret |-> NULLPTR, used |-> 0, made |-> {}, freed |-> {}]
  ELSE
    LET s0 == ini_getsection(file, section)
        r1 == IF s0 = NULLPTR
              THEN section_insert(file, makesection(id, section))
              ELSE [ini |-> file, ret |-> s0]
        id1 == IF s0 = NULLPTR THEN id + 1 ELSE id
        m1 == IF s0 = NULLPTR THEN SectionBlocks(id) ELSE {}
        s == SecAt(r1.ini, r1.ret)
        p0 == inisection_getpair(s, key)
    IN IF p0 = NULLPTR
       THEN LET r2 == pair_insert(s, makepair(id1, key, val)) IN
            [ini |-> PutSec(r1.ini, r2.sec), ret |-> r2.ret, used |-> id1 + 1 - id,
             made |-> m1 \cup PairBlocks(makepair(id1, key, val)),
             freed |-> r2.freed]
       ELSE [ini |-> r1.ini, ret |-> p0, used |-> id1 - id,
             made |-> m1, freed |-> {}]

\* ini_set with the slip of falling back to the default section when the
\* named section is not found
ini_set_in_default(file, section, key, val) ==
  IF key = NULL THEN [ini |-> file, ret |-> NULLPTR, made |-> {}, freed |-> {}]
  ELSE
    LET s0 == ini_getsection(file, section)
        s == IF s0 = NULLPTR THEN file.default_section.id ELSE s0
        p == inisection_getpair(SecAt(file, s), key)
    IN IF p = NULLPTR THEN [ini |-> file, ret |-> NULLPTR, made |-> {}, freed |-> {}]
       ELSE
         LET r == pair_setval(PairAt(SecAt(file, s), p), val)
             f2 == PutSec(file, PutPair(SecAt(file, s), r.pair))
         IN IF r.ret = NULL
            THEN [ini |-> f2, ret |-> NULLPTR, made |-> r.made, freed |-> r.freed]
            ELSE [ini |-> f2, ret |-> p, made |-> r.made, freed |-> r.freed]

\* ini_set(ini, section, key, val): the new document, the returned pointer
\* and the value blocks pair_setval allocated and freed
ini_set(file, section, key, val) ==
  IF key = NULL THEN [ini |-> file, ret |-> NULLPTR, made |-> {}, freed |-> {}]
  ELSE
    LET s == ini_getsection(file, section) IN
    IF s = NULLPTR THEN [ini |-> file, ret |-> NULLPTR, made |-> {}, freed |-> {}]
    ELSE
      LET p == inisection_getpair(SecAt(file, s), key) IN
      IF p = NULLPTR THEN [ini |-> file, ret |-> NULLPTR, made |-> {}, freed |-> {}]
      ELSE
        LET r == pair_setval(PairAt(SecAt(file, s), p), val)
            f2 == PutSec(file, PutPair(SecAt(file, s), r.pair))
        IN IF r.ret = NULL
           THEN [ini |-> f2, ret |-> NULLPTR, made |-> r.made, freed |-> r.freed]
           ELSE [ini |-> f2, ret |-> p, made |-> r.made, freed |-> r.freed]

----------------------------------------------------------------------------
(* Traversal.                                                              *)

\* the callbacks of one section, in list order
SecVisits(sec) == [i \in 1..Len(sec.head) |-> [sec |-> sec.id, pair |-> sec.head[i].id]]

RECURSIVE Flatten(_)
Flatten(ss) == IF ss = <<>> THEN <<>> ELSE Head(ss) \o Flatten(Tail(ss))

\* ini_foreach(ini, cb): the sequence of cb(section, pair) calls made
ini_foreach(file) ==
  SecVisits(file.default_section)
    \o Flatten([i \in 1..Len(file.head) |-> SecVisits(file.head[i])])

----------------------------------------------------------------------------
(* The parser: fgets, the sscanf formats and loadinifromfile.              *)

INIO_SPACE_AROUND_DELIM == 1
INIO_ALLOW_EMPTY == 2

\* flags & bit, for a one-bit mask
HasFlag(flags, bit) == (flags \div bit) % 2 = 1

\* fgets(tmpline, 512, infile) reads at most 511 bytes
LineMax == 511
\* the field width of every %256[...] conversion
FieldWidth == 256

\* isspace(3) in the C locale
isspace(c) == c \in {9, 10, 11, 12, 13, 32}

\* a white-space directive of a format: skips any run of white space
RECURSIVE SkipWs(_, _)
SkipWs(s, i) ==
  IF i <= Len(s) /\ isspace(s[i]) THEN SkipWs(s, i + 1) ELSE i

\* the least number of a set of numbers
Least(S) == CHOOSE x \in S : \A y \in S : x <= y

\* %<width>[^excl]: the position after the longest run, from i, of at most
\* width bytes that are not in excl (equal to i when nothing matches): the
\* first position where the input ends, the width is used up or a byte of
\* excl stands
ScanSet(s, i, excl, width) ==
  IF i > Len(s) THEN i
  ELSE Least({j \in i..(Len(s) + 1) :
                j > Len(s) \/ j - i >= width \/ s[j] \in excl})

\* sscanf's EOF result: the input ended before the first conversion
EOF == -1

\* sscanf(tmpline, " [%256[^]]]", tmpsection): n is the returned count,
\* f1 the bytes stored in tmpsection
scan_section(s) ==
  LET i1 == SkipWs(s, 1)
      j  == ScanSet(s, i1 + 1, {Ch.rb}, FieldWidth)
  IN IF i1 > Len(s) THEN [n |-> EOF, f1 |-> <<>>]
     ELSE IF s[i1] # Ch.lb THEN [n |-> 0, f1 |-> <<>>]
     ELSE IF i1 + 1 > Len(s) THEN [n |-> EOF, f1 |-> <<>>]
     ELSE IF j = i1 + 1 THEN [n |-> 0, f1 |-> <<>>]
     ELSE [n |-> 1, f1 |-> SubSeq(s, i1 + 1, j - 1)]

\* sscanf(tmpline, keyvalfmt, tmpkey, tmpval) for fmt_spaces (spaces = TRUE)
\* " %256[^=; ] = %256[^\n] " and fmt_no_spaces " %256[^=; ]=%256[^ \n] "
scan_keyval(s, spaces) ==
  LET i1 == SkipWs(s, 1)
      j  == ScanSet(s, i1, {Ch.eq, Ch.semi, Ch.sp}, FieldWidth)
      e  == IF spaces THEN SkipWs(s, j) ELSE j
      v0 == IF spaces THEN SkipWs(s, e + 1) ELSE e + 1
      k  == ScanSet(s, v0, IF spaces THEN {Ch.nl} ELSE {Ch.sp, Ch.nl}, FieldWidth)
      key == SubSeq(s, i1, j - 1)
  IN IF i1 > Len(s) THEN [n |-> EOF, f1 |-> <<>>, f2 |-> <<>>]
     ELSE IF j = i1 THEN [n |-> 0, f1 |-> <<>>, f2 |-> <<>>]
     ELSE IF e > Len(s) \/ s[e] # Ch.eq THEN [n |-> 1, f1 |-> key, f2 |-> <<>>]
     ELSE IF k = v0 THEN [n |-> 1, f1 |-> key, f2 |-> <<>>]
     ELSE [n |-> 2, f1 |-> key, f2 |-> SubSeq(s, v0, k - 1)]

\* sscanf(tmpline, " %256[^=; ] \n", tmpkey)
scan_key(s) ==
  LET i1 == SkipWs(s, 1)
      j  == ScanSet(s, i1, {Ch.eq, Ch.semi, Ch.sp}, FieldWidth)
  IN IF i1 > Len(s) THEN [n |-> EOF, f1 |-> <<>>]
     ELSE IF j = i1 THEN [n |-> 0, f1 |-> <<>>]
     ELSE [n |-> 1, f1 |-> SubSeq(s, i1, j - 1)]

\* the position of the last byte fgets takes from s, looking from byte i:
\* the first newline, or byte LineMax, or the end
LineEnd(s, i) ==
  Min(Least({j \in i..(Len(s) + i) :
               j >= Len(s) \/ j >= LineMax \/ s[j] = Ch.nl}),
      Len(s))

\* the lines the read loop gets from a file's bytes, one per successful fgets
RECURSIVE fgets_lines(_)
fgets_lines(bytes) ==
  IF bytes = <<>> THEN <<>>
  ELSE LET e == LineEnd(bytes, 1) IN
       <<SubSeq(bytes, 1, e)>> \o fgets_lines(SubSeq(bytes, e + 1, Len(bytes)))

\* what the body of the read loop recognises in one line, in the order the
\* code tries the formats
ParseLine(flags, line) ==
  LET h  == scan_section(line)
      kv == scan_keyval(line, HasFlag(flags, INIO_SPACE_AROUND_DELIM))
      bk == scan_key(line)
  IN IF h.n = 1 THEN [kind |-> "section", name |-> h.f1, key |-> NULL, val |-> NULL]
     ELSE IF kv.n = 2 THEN [kind |-> "pair", name |-> NULL, key |-> kv.f1, val |-> kv.f2]
     ELSE IF HasFlag(flags, INIO_ALLOW_EMPTY) /\ bk.n = 1
          THEN [kind |-> "pair", name |-> NULL, key |-> bk.f1, val |-> NULL]
     ELSE [kind |-> "none", name |-> NULL, key |-> NULL, val |-> NULL]

\* sizeof tmpsection, tmpkey, tmpval
BufSize == 256

\* the bytes, terminating NUL included, that the sscanf calls of one pass of
\* the loop body store in each buffer (0 when a buffer is not written)
StoredBytes(flags, line) ==
  LET h  == scan_section(line)
      kv == scan_keyval(line, HasFlag(flags, INIO_SPACE_AROUND_DELIM))
      bk == scan_key(line)
      k1 == IF kv.n >= 1 THEN Len(kv.f1) + 1 ELSE 0
      k2 == IF kv.n # 2 /\ HasFlag(flags, INIO_ALLOW_EMPTY) /\ bk.n = 1
            THEN Len(bk.f1) + 1 ELSE 0
  IN IF h.n = 1
     THEN [tmpsection |-> Len(h.f1) + 1, tmpkey |-> 0, tmpval |-> 0]
     ELSE [tmpsection |-> 0,
           tmpkey |-> IF k1 >= k2 THEN k1 ELSE k2,
           tmpval |-> IF kv.n = 2 THEN Len(kv.f2) + 1 ELSE 0]

\* some sscanf call of the read loop stores past the end of its buffer
Overflows(flags, bytes) ==
  \E i \in 1..Len(fgets_lines(bytes)) :
    LET w == StoredBytes(flags, fgets_lines(bytes)[i]) IN
    w.tmpsection > BufSize \/ w.tmpkey > BufSize \/ w.tmpval > BufSize

\* the read loop with the slip of leaving tmpsec as it is after a header
RECURSIVE load_loop_keeps_target(_, _)
load_loop_keeps_target(st, lines) ==
  IF lines = <<>> THEN st
  ELSE
    LET it == ParseLine(st.ini.flags, Head(lines)) IN
    IF it.kind = "section"
    THEN LET r == section_insert(st.ini, makesection(st.id, it.name)) IN
         load_loop_keeps_target(
           [ini |-> r.ini, tmpsec |-> st.tmpsec, id |-> st.id + 1,
            made |-> st.made \cup SectionBlocks(st.id),
            freed |-> st.freed \cup (IF r.ret # st.id
                                      THEN {Obj("section", st.id)}
                                      ELSE {})],
           Tail(lines))
    ELSE IF it.kind = "pair"
    THEN LET r == pair_insert(SecAt(st.ini, st.tmpsec), makepair(st.id, it.key, it.val)) IN
         load_loop_keeps_target(
           [st EXCEPT !.ini = PutSec(st.ini, r.sec), !.id = st.id + 1,
                      !.made = st.made \cup PairBlocks(makepair(st.id, it.key, it.val)),
                      !.freed = st.freed \cup r.freed],
           Tail(lines))
    ELSE load_loop_keeps_target(st, Tail(lines))

\* the read loop of loadinifromfile over the remaining lines; st holds the
\* document, tmpsec (the current section), the next free object id and the
\* heap blocks allocated and freed so far.  When section_insert returns
\* another section than the new one, free(tmpsec) frees the new struct only.
RECURSIVE load_loop(_, _)
load_loop(st, lines) ==
  IF lines = <<>> THEN st
  ELSE
    LET it == ParseLine(st.ini.flags, Head(lines)) IN
    IF it.kind = "section"
    THEN LET r == section_insert(st.ini, makesection(st.id, it.name)) IN
         load_loop([ini |-> r.ini, tmpsec |-> r.ret, id |-> st.id + 1,
                    made |-> st.made \cup SectionBlocks(st.id),
                    freed |-> st.freed \cup (IF r.ret # st.id
                                              THEN {Obj("section", st.id)}
                                              ELSE {})],
                   Tail(lines))
    ELSE IF it.kind = "pair"
    THEN LET r == pair_insert(SecAt(st.ini, st.tmpsec), makepair(st.id, it.key, it.val)) IN
         load_loop([st EXCEPT !.ini = PutSec(st.ini, r.sec), !.id = st.id + 1,
                              !.made = st.made \cup PairBlocks(makepair(st.id, it.key, it.val)),
                              !.freed = st.freed \cup r.freed],
                   Tail(lines))
    ELSE load_loop(st, Tail(lines))

\* loadinifromfile(inif, filename) on a file that opens, holding the given
\* bytes: the new document, the return value, the objects allocated, the
\* heap blocks allocated and freed
loadinifromfile(file, bytes, id) ==
  LET st == load_loop([ini |-> file, tmpsec |-> file.default_section.id, id |-> id,
                       made |-> {}, freed |-> {}],
                      fgets_lines(bytes))
  IN [ini |-> st.ini, ret |-> 0, used |-> st.id - id,
      made |-> st.made, freed |-> st.freed]

----------------------------------------------------------------------------
(* The writer.                                                             *)

\* the line the writer prints for one pair: "key=val\n", or "key=\n" for a
\* NULL value when INIO_ALLOW_EMPTY is set, or nothing
write_pair(pair, flags) ==
  IF pair.val # NULL
  THEN pair.key \o <<Ch.eq>> \o pair.val \o <<Ch.nl>>
  ELSE IF HasFlag(flags, INIO_ALLOW_EMPTY)
  THEN pair.key \o <<Ch.eq, Ch.nl>>
  ELSE <<>>

\* the loop over the pairs of one section
RECURSIVE write_pairs(_, _)
write_pairs(list, flags) ==
  IF list = <<>> THEN <<>>
  ELSE write_pair(Head(list), flags) \o write_pairs(Tail(list), flags)

\* the writer's loop body for a section that has at least one pair
write_block(sec, flags) ==
  <<Ch.lb>> \o sec.name \o <<Ch.rb, Ch.nl>>
    \o write_pairs(sec.head, flags) \o <<Ch.nl>>

\* the writer's loop body with the test for a section without pairs left out
write_section_always(sec, flags) == write_block(sec, flags)

\* the writer's loop body for one named section: nothing when it has no pair
write_section(sec, flags) ==
  IF sec.head = <<>> THEN <<>> ELSE write_block(sec, flags)

\* the loop over the named sections
RECURSIVE write_sections(_, _)
write_sections(list, flags) ==
  IF list = <<>> THEN <<>>
  ELSE write_section(Head(list), flags) \o write_sections(Tail(list), flags)

\* writeinitofile(ini, filename) on a file that opens: the bytes written and
\* the return value
writeinitofile(file) ==
  [bytes |-> write_pairs(file.default_section.head, file.flags) \o <<Ch.nl>>
               \o write_sections(file.head, file.flags),
   ret |-> 0]

----------------------------------------------------------------------------
(* The state machine.                                                      *)

Keys == {<<Ch.a>>, <<Ch.b>>}
Vals == {<<Ch.one>>, <<Ch.two>>}
Names == {<<Ch.S>>, <<Ch.T>>}

\* the lines input files are made of
Lines ==
  { <<Ch.a, Ch.eq, Ch.two, Ch.nl>>,               \* a=2
    <<Ch.b, Ch.eq, Ch.one, Ch.nl>>,               \* b=1
    <<Ch.lb, Ch.S, Ch.rb, Ch.nl>>,                \* [S]
    <<Ch.a, Ch.sp, Ch.eq, Ch.sp, Ch.one, Ch.nl>>, \* a = 1
    <<Ch.b, Ch.nl>> }                             \* b

RECURSIVE FilesOf(_)
FilesOf(n) ==
  IF n = 0 THEN {<<>>}
  ELSE LET shorter == FilesOf(n - 1) IN
       shorter \cup {f \o l : f \in shorter, l \in Lines}

\* the input files: at most MaxLines lines
Files == FilesOf(MaxLines)

NoCall == [op |-> "makeini", sec |-> NULLPTR, section |-> NULL, key |-> NULL,
           val |-> NULL, file |-> <<>>, ret |-> NULLPTR, visited |-> <<>>]

\* objects allocated since makeini()
Allocated == nextId - 2

Init ==
  /\ ini \in {makeini(f) : f \in 0..3}
  /\ nextId = 2
  /\ last = NoCall
  /\ heap = [live |-> IniBlocks, twice |-> {}]

\* section_insert(ini, makesection(name))
SectionInsert ==
  \E name \in Names :
    /\ Allocated < MaxAlloc
    /\ LET r == section_insert(ini, makesection(nextId, name)) IN
       /\ ini' = r.ini
       /\ last' = [NoCall EXCEPT !.op = "section_insert", !.sec = nextId,
                                 !.section = name, !.ret = r.ret]
    /\ nextId' = nextId + 1
    /\ heap' = HeapAfter(heap, SectionBlocks(nextId), {})

\* pair_insert(sec, makepair(key, val)) on a section of the document
PairInsert ==
  \E i \in 1..(Len(ini.head) + 1), key \in Keys, val \in Vals \cup {NULL} :
    /\ Allocated < MaxAlloc
    /\ LET sec == AllSections(ini)[i]
           r == pair_insert(sec, makepair(nextId, key, val)) IN
       /\ ini' = PutSec(ini, r.sec)
       /\ last' = [NoCall EXCEPT !.op = "pair_insert", !.sec = sec.id,
                                 !.key = key, !.val = val, !.ret = r.ret]
       /\ heap' = HeapAfter(heap, PairBlocks(makepair(nextId, key, val)), r.freed)
    /\ nextId' = nextId + 1

\* ini_put(ini, section, key, val)
IniPut ==
  \E section \in Names \cup {NULL}, key \in Keys, val \in Vals \cup {NULL} :
  \E r \in {ini_put(ini, section, key, val, nextId)} :
    /\ Allocated + r.used <= MaxAlloc
    /\ ini' = r.ini
    /\ nextId' = nextId + r.used
    /\ last' = [NoCall EXCEPT !.op = "ini_put", !.section = section,
                              !.key = key, !.val = val, !.ret = r.ret]
    /\ heap' = HeapAfter(heap, r.made, r.freed)

\* ini_set(ini, section, key, val)
IniSet ==
  \E section \in Names \cup {NULL}, key \in Keys, val \in Vals \cup {NULL} :
  \E r \in {ini_set(ini, section, key, val)} :
    /\ ini' = r.ini
    /\ nextId' = nextId
    /\ last' = [NoCall EXCEPT !.op = "ini_set", !.section = section,
                              !.key = key, !.val = val, !.ret = r.ret]
    /\ heap' = HeapAfter(HeapAfter(heap, {}, r.freed), r.made, {})

\* loadinifromfile(ini, filename) on a file that opens
Load ==
  \E bytes \in Files :
  \E r \in {loadinifromfile(ini, bytes, nextId)} :
    /\ Allocated + r.used <= MaxAlloc
    /\ ini' = r.ini
    /\ nextId' = nextId + r.used
    /\ last' = [NoCall EXCEPT !.op = "loadinifromfile", !.file = bytes, !.ret = r.ret]
    /\ heap' = HeapAfter(heap, r.made, r.freed)

\* loadinifromfile(ini, filename) when fopen fails: returns 1
LoadFail ==
  /\ last.op # "loadinifromfile"
  /\ UNCHANGED <<ini, nextId, heap>>
  /\ last' = [NoCall EXCEPT !.op = "loadinifromfile", !.ret = 1]

\* ini_foreach(ini, cb) with a callback that records its arguments
Foreach ==
  /\ UNCHANGED <<ini, nextId, heap>>
  /\ last' = [NoCall EXCEPT !.op = "ini_foreach", !.visited = ini_foreach(ini)]

Next ==
  \/ SectionInsert
  \/ PairInsert
  \/ IniPut
  \/ IniSet
  \/ Load
  \/ LoadFail
  \/ Foreach

Spec == Init /\ [][Next]_vars

\* the two list inserts alone
NextInsert == SectionInsert \/ PairInsert

SpecInsert == Init /\ [][NextInsert]_vars

\* the calls that change a document in memory
NextApi == SectionInsert \/ PairInsert \/ IniPut \/ IniSet

SpecApi == Init /\ [][NextApi]_vars

\* loading into documents built by ini_put and by earlier loads
NextLoad == IniPut \/ Load \/ LoadFail

SpecLoad == Init /\ [][NextLoad]_vars

\* the lines text files are made of
TextLines ==
  { <<Ch.a, Ch.eq, Ch.one, Ch.nl>>,               \* a=1
    <<Ch.b, Ch.eq, Ch.two, Ch.nl>>,               \* b=2
    <<Ch.a, Ch.b, Ch.eq, Ch.one, Ch.nl>>,         \* ab=1
    <<Ch.lb, Ch.S, Ch.rb, Ch.nl>>,                \* [S]
    <<Ch.lb, Ch.T, Ch.rb, Ch.nl>>,                \* [T]
    <<Ch.lb, Ch.S, Ch.nl>>,                       \* [S
    <<Ch.a, Ch.sp, Ch.eq, Ch.sp, Ch.one, Ch.nl>>, \* a = 1
    <<Ch.b, Ch.nl>>,                              \* b
    <<Ch.semi, Ch.nl>> }                          \* ;

RECURSIVE TextsOf(_)
TextsOf(n) ==
  IF n = 0 THEN {<<>>}
  ELSE LET shorter == TextsOf(n - 1) IN
       shorter \cup {f \o l : f \in shorter, l \in TextLines}

\* the text files: at most MaxText lines
Texts == TextsOf(MaxText)

\* loadinifromfile(ini, filename) on the document makeini() returned
ParseText ==
  /\ last.op = "makeini"
  /\ \E bytes \in Texts :
     \E r \in {loadinifromfile(ini, bytes, nextId)} :
       /\ ini' = r.ini
       /\ nextId' = nextId + r.used
       /\ last' = [NoCall EXCEPT !.op = "loadinifromfile", !.file = bytes, !.ret = r.ret]
       /\ heap' = HeapAfter(heap, r.made, r.freed)

\* writeinitofile(ini, filename) on a file that opens; last.file holds the
\* bytes written
Write ==
  \E r \in {writeinitofile(ini)} :
    /\ last.op \notin {"writeinitofile", "freeini", "killed"}
    /\ UNCHANGED <<ini, nextId, heap>>
    /\ last' = [NoCall EXCEPT !.op = "writeinitofile", !.file = r.bytes, !.ret = r.ret]

\* writeinitofile(ini, filename) when fopen fails: returns 1
WriteFail ==
  /\ last.op \notin {"writeinitofile", "freeini", "killed"}
  /\ UNCHANGED <<ini, nextId, heap>>
  /\ last' = [NoCall EXCEPT !.op = "writeinitofile", !.ret = 1]

\* freeini(ini); the caller's pointer keeps the address of the freed blocks
FreeIni ==
  /\ last.op \notin {"freeini", "killed"}
  /\ UNCHANGED <<ini, nextId>>
  /\ heap' = HeapAfter(heap, {}, freeini(ini))
  /\ last' = [NoCall EXCEPT !.op = "freeini"]

\* one text parsed into a new document, then written or freed
NextParse == ParseText \/ Write \/ WriteFail \/ FreeIni

SpecParse == Init /\ [][NextParse]_vars

\* n times the byte c
Rep(c, n) == [i \in 1..n |-> c]

\* the field lengths of the long lines: one byte, and the lengths just
\* below and above the size of the buffers
FieldLens == {1} \cup ((MaxField - 2)..MaxField)

\* lines with one field of each of these lengths
LongLines ==
  UNION {{ <<Ch.lb>> \o Rep(Ch.S, n) \o <<Ch.rb, Ch.nl>>,        \* [SS...S]
           Rep(Ch.a, n) \o <<Ch.eq, Ch.one, Ch.nl>>,              \* aa...a=1
           <<Ch.a, Ch.eq>> \o Rep(Ch.one, n) \o <<Ch.nl>>,        \* a=11...1
           Rep(Ch.a, n) \o <<Ch.sp, Ch.eq, Ch.sp, Ch.one, Ch.nl>>, \* aa...a = 1
           Rep(Ch.b, n) \o <<Ch.nl>> } :                          \* bb...b
         n \in FieldLens}

\* What a store past the end of a buffer, which is undefined behaviour, can
\* make of loadinifromfile on a one-line file: "unharmed", the byte past the
\* buffer falls where it changes nothing; "clobbered", the NUL past tmpval
\* falls on tmpkey[0] and the pair is stored with an empty key (what the
\* compiled library does); "killed", the byte falls on a pointer of the
\* frame, or the build checks the stores, and the call never returns.
Outcomes(flags, line) ==
  IF ~Overflows(flags, line) THEN {"unharmed"}
  ELSE {"unharmed", "killed"}
         \cup (IF StoredBytes(flags, line).tmpval > BufSize THEN {"clobbered"} ELSE {})

\* loadinifromfile(inif, filename) on a one-line file when tmpkey[0] has
\* been overwritten with NUL before makepair(tmpkey, tmpval) is called
load_clobbered(file, line, id) ==
  LET pair == makepair(id, <<>>, ParseLine(file.flags, line).val)
      r == pair_insert(file.default_section, pair)
  IN [ini |-> PutSec(file, r.sec), ret |-> 0, used |-> 1,
      made |-> PairBlocks(pair), freed |-> r.freed]

\* loadinifromfile(ini, filename) of a one-line file on the document
\* makeini() returned
LoadLong ==
  /\ last.op = "makeini"
  /\ \E bytes \in LongLines :
     \E outcome \in Outcomes(ini.flags, bytes) :
     \E r \in {IF outcome = "clobbered"
                THEN load_clobbered(ini, bytes, nextId)
                ELSE loadinifromfile(ini, bytes, nextId)} :
       IF outcome = "killed"
       THEN /\ UNCHANGED <<ini, nextId, heap>>
            /\ last' = [NoCall EXCEPT !.op = "killed", !.file = bytes]
       ELSE /\ ini' = r.ini
            /\ nextId' = nextId + r.used
            /\ last' = [NoCall EXCEPT !.op = "loadinifromfile", !.file = bytes,
                                      !.ret = r.ret]
            /\ heap' = HeapAfter(heap, r.made, r.freed)

\* one long line parsed into a new document, then freed
NextLong == LoadLong \/ FreeIni

SpecLong == Init /\ [][NextLong]_vars

\* writing documents that were parsed and then changed by ini_set
NextWrite == ParseText \/ IniSet \/ Write \/ WriteFail

SpecWrite == Init /\ [][NextWrite]_vars

----------------------------------------------------------------------------
(* Vocabulary of the properties.                                           *)

\* the result of looking a value up when ini_getpair returns NULL
NotFound == <<0, 0>>

\* the value of the pair ini_getpair(file, section, key) returns
GetVal(file, section, key) ==
  LET s == ini_getsection(file, section) IN
  IF s = NULLPTR THEN NotFound
  ELSE LET p == inisection_getpair(SecAt(file, s), key) IN
       IF p = NULLPTR THEN NotFound ELSE PairAt(SecAt(file, s), p).val

\* the number of pairs of a section that have the given key
KeyCount(sec, key) == Cardinality({i \in 1..Len(sec.head) : sec.head[i].key = key})

\* the number of named sections that have the given name
NameCount(file, name) == Cardinality({i \in 1..Len(file.head) : file.head[i].name = name})

\* a list of pairs is strictly ascending by key
KeysAscending(list) ==
  \A i \in 1..(Len(list) - 1) : strcmp(list[i].key, list[i + 1].key) < 0

\* a list of sections is strictly ascending by name
NamesAscending(list) ==
  \A i \in 1..(Len(list) - 1) : strcmp(list[i].name, list[i + 1].name) < 0

----------------------------------------------------------------------------
(* C1 .. C4: the sorted inserts.                                           *)

\* C1: after any sequence of pair_insert calls with fresh pairs, every
\* section's pair list is strictly ascending by key under byte-wise
\* comparison, hence without two pairs of the same key.
C1_PairsAscending ==
  \A i \in 1..Len(AllSections(ini)) : KeysAscending(AllSections(ini)[i].head)

\* C2: after any sequence of section_insert calls with fresh named
\* sections, the named-section list is strictly ascending by name, hence
\* without two sections of the same name.
C2_SectionsAscending == NamesAscending(ini.head)

\* C3: pair_insert(sec, p) on a section that already holds a pair with p's
\* key, at any position, removes the old pair and puts p in its place:
\* afterwards exactly one pair has the key, inisection_getpair finds p, the
\* call returns p, and the old pair is gone.
C3_PairReplaced ==
  [][ (last'.op = "pair_insert" /\ KeyCount(SecAt(ini, last'.sec), last'.key) > 0)
      => LET before == SecAt(ini, last'.sec)
             after  == SecAt(ini', last'.sec)
         IN /\ last'.ret = nextId
            /\ KeyCount(after, last'.key) = 1
            /\ inisection_getpair(after, last'.key) = nextId
            /\ \A i \in 1..Len(before.head) :
                  before.head[i].key = last'.key
                    => \A j \in 1..Len(after.head) : after.head[j].id # before.head[i].id
    ]_vars

\* C4: section_insert(file, sec) when a section of sec's name is already in
\* the document, at any position, returns that section (not sec), does not
\* link sec and leaves the section list and its pairs as they were; when no
\* section has the name, it links sec and returns sec.
C4_SectionKept ==
  [][ last'.op = "section_insert"
      => IF NameCount(ini, last'.section) > 0
         THEN /\ last'.ret # last'.sec
              /\ \E i \in 1..Len(ini.head) :
                    ini.head[i].name = last'.section /\ ini.head[i].id = last'.ret
              /\ ini'.head = ini.head
         ELSE /\ last'.ret = last'.sec
              /\ \E i \in 1..Len(ini'.head) : ini'.head[i].id = last'.sec
    ]_vars

----------------------------------------------------------------------------
(* C5: loading into a document that holds data.                            *)

\* what the lines of a file say: for every recognised pair line, in input
\* order, the name of the section header it follows (NULL before the first
\* header), its key and its value (NULL for a bare key)
RECURSIVE MentionsOf(_, _, _)
MentionsOf(flags, lines, cur) ==
  IF lines = <<>> THEN <<>>
  ELSE LET it == ParseLine(flags, Head(lines)) IN
       IF it.kind = "section" THEN MentionsOf(flags, Tail(lines), it.name)
       ELSE IF it.kind = "pair"
       THEN <<[section |-> cur, key |-> it.key, val |-> it.val]>>
              \o MentionsOf(flags, Tail(lines), cur)
       ELSE MentionsOf(flags, Tail(lines), cur)

Mentions(flags, bytes) == MentionsOf(flags, fgets_lines(bytes), NULL)

\* the section names and the keys a document holds
NamesIn(file) == {NULL} \cup {file.head[i].name : i \in 1..Len(file.head)}
KeysIn(file) ==
  UNION {{AllSections(file)[i].head[j].key : j \in 1..Len(AllSections(file)[i].head)}
           : i \in 1..Len(AllSections(file))}

\* C5: after loadinifromfile returns 0, every (section, key) with a
\* key=value line in the input is found by ini_getpair with the value of the
\* last such line, and every (section, key) held before that the input does
\* not mention is found with the value held before.
C5_LoadOverwrites ==
  [][ (last'.op = "loadinifromfile" /\ last'.ret = 0)
      => LET ms == Mentions(ini.flags, last'.file) IN
         /\ \A i \in 1..Len(ms) :
              ( /\ ms[i].val # NULL
                /\ \A j \in (i + 1)..Len(ms) :
                     ~(ms[j].section = ms[i].section /\ ms[j].key = ms[i].key) )
              => GetVal(ini', ms[i].section, ms[i].key) = ms[i].val
         /\ \A sn \in NamesIn(ini), k \in KeysIn(ini) :
              ( /\ GetVal(ini, sn, k) # NotFound
                /\ \A i \in 1..Len(ms) : ~(ms[i].section = sn /\ ms[i].key = k) )
              => GetVal(ini', sn, k) = GetVal(ini, sn, k)
    ]_vars

----------------------------------------------------------------------------
(* C6 .. C9: ini_put and ini_set.                                          *)

\* two consecutive calls are about the same section name and key
SameTarget(c1, c2) == c1.section = c2.section /\ c1.key = c2.key

\* the pairs with the given key in the section ini_getsection finds
FoundKeyCount(file, section, key) ==
  IF ini_getsection(file, section) = NULLPTR THEN 0
  ELSE KeyCount(SecAt(file, ini_getsection(file, section)), key)

C7_PutSetsValue ==
  (last.op = "ini_put" /\ last.ret # NULLPTR)
    => /\ ini_getpair(ini, last.section, last.key) = last.ret
       /\ GetVal(ini, last.section, last.key) = last.val

\* no named section of the document has the name
SectionAbsent(file, section) == section # NULL /\ NameCount(file, section) = 0

\* no section of that name (the default section for NULL) holds the key
KeyAbsent(file, section, key) ==
  \A i \in 1..Len(AllSections(file)) :
    AllSections(file)[i].name = section => KeyCount(AllSections(file)[i], key) = 0

\* C8: ini_set on a section name that is not in the document, or on a key
\* that is not in the named (or default) section, returns NULL and leaves
\* the document as it was.
C8_SetMissingChangesNothing ==
  [][ ( /\ last'.op = "ini_set"
        /\ \/ SectionAbsent(ini, last'.section)
           \/ KeyAbsent(ini, last'.section, last'.key) )
      => (last'.ret = NULLPTR /\ ini' = ini)
    ]_vars

\* a state after an ini_set on a key that is missing from a named section
\* which holds another pair
C8_Witness ==
  /\ last.op = "ini_set"
  /\ last.ret = NULLPTR
  /\ last.section # NULL
  /\ ini_getsection(ini, last.section) # NULLPTR
  /\ SecAt(ini, ini_getsection(ini, last.section)).head # <<>>
  /\ KeyAbsent(ini, last.section, last.key)

\* C9: ini_set returns NULL if and only if the section or the key is
\* absent; when both exist it stores the given value (NULL clears it) and
\* returns the resident pair.
C9_SetFailsIffAbsent ==
  [][ last'.op = "ini_set"
      => /\ (last'.ret = NULLPTR)
              <=> (ini_getpair(ini, last'.section, last'.key) = NULLPTR)
         /\ ini_getpair(ini, last'.section, last'.key) # NULLPTR
              => /\ GetVal(ini', last'.section, last'.key) = last'.val
                 /\ last'.ret = ini_getpair(ini, last'.section, last'.key)
    ]_vars

----------------------------------------------------------------------------
(* C10: the traversal.                                                     *)

\* the pair a callback was given
VisitedPair(file, v) == PairAt(SecAt(file, v.sec), v.pair)

\* callback v may directly precede callback w in the documented order
\* (equal keys or names are let through: what is refused is a descent)
InOrder(file, v, w) ==
  IF v.sec = w.sec
  THEN strcmp(VisitedPair(file, v).key, VisitedPair(file, w).key) <= 0
  ELSE \/ v.sec = file.default_section.id
       \/ /\ w.sec # file.default_section.id
          /\ strcmp(SecAt(file, v.sec).name, SecAt(file, w.sec).name) <= 0

\* C10: ini_foreach calls the callback exactly once per pair of the
\* document, the default section's pairs first in ascending key order, then
\* the named sections in ascending name order, each in ascending key order.
C10_ForeachInOrder ==
  last.op = "ini_foreach"
    => /\ \A i \in 1..Len(AllSections(ini)) :
            \A j \in 1..Len(AllSections(ini)[i].head) :
              Cardinality({n \in 1..Len(last.visited) :
                 last.visited[n] = [sec |-> AllSections(ini)[i].id,
                                    pair |-> AllSections(ini)[i].head[j].id]}) = 1
       /\ \A n \in 1..(Len(last.visited) - 1) :
            InOrder(ini, last.visited[n], last.visited[n + 1])

----------------------------------------------------------------------------
(* Files: writing, parsing, memory.                                        *)

\* the (section name, key, value) triples in the order ini_foreach visits
Triples(file) ==
  LET v == ini_foreach(file) IN
  [i \in 1..Len(v) |->
     LET sec == SecAt(file, v[i].sec) IN
     <<sec.name, PairAt(sec, v[i].pair).key, PairAt(sec, v[i].pair).val>>]

\* the bytes that end a key or a section name on a line
Delims == {Ch.eq, Ch.semi, Ch.sp, Ch.nl}

\* a key or section name the file format can hold
PlainName(str) == str # <<>> /\ \A i \in 1..Len(str) : str[i] \notin Delims

\* a value the file format can hold: absent, or without a newline
PlainValue(val) == val = NULL \/ \A i \in 1..Len(val) : val[i] # Ch.nl

\* every name, key and value of the document is one the format can hold
Representable(file) ==
  /\ \A i \in 1..Len(file.head) : PlainName(file.head[i].name)
  /\ \A i \in 1..Len(AllSections(file)) :
       \A j \in 1..Len(AllSections(file)[i].head) :
         /\ PlainName(AllSections(file)[i].head[j].key)
         /\ PlainValue(AllSections(file)[i].head[j].val)

\* the document obtained by parsing the bytes into a new document with the
\* same options
Reparsed(file, bytes) == loadinifromfile(makeini(file.flags), bytes, 2).ini

\* C11: writing a document of representable data and parsing the output
\* into a new document with the same options gives the same triples in the
\* same traversal order.
C11_RoundTrip ==
  (last.op = "writeinitofile" /\ last.ret = 0 /\ Representable(ini))
    => Triples(Reparsed(ini, last.file)) = Triples(ini)

\* the lines of a text, each with its newline
RECURSIVE LinesOf(_)
LinesOf(bytes) ==
  IF bytes = <<>> THEN <<>>
  ELSE IF \A i \in 1..Len(bytes) : bytes[i] # Ch.nl THEN <<bytes>>
  ELSE LET n == CHOOSE i \in 1..Len(bytes) :
                  bytes[i] = Ch.nl /\ \A j \in 1..(i - 1) : bytes[j] # Ch.nl
       IN <<SubSeq(bytes, 1, n)>> \o LinesOf(SubSeq(bytes, n + 1, Len(bytes)))

\* a name, key or value of a well-formed line: not empty, no delimiter, no
\* bracket
Word(str) ==
  str # <<>> /\ \A i \in 1..Len(str) : str[i] \notin Delims \cup {Ch.lb, Ch.rb}

\* the position of the first '=' of a line, 0 when it has none
EqPos(line) ==
  IF \A i \in 1..Len(line) : line[i] # Ch.eq THEN 0
  ELSE CHOOSE i \in 1..Len(line) :
         line[i] = Ch.eq /\ \A j \in 1..(i - 1) : line[j] # Ch.eq

\* the key and the value written on a key=value line
KeyOf(line) == SubSeq(line, 1, EqPos(line) - 1)
ValOf(line) == SubSeq(line, EqPos(line) + 1, Len(line) - 1)

\* a well-formed line key=value
IsPairLine(line) ==
  /\ Len(line) >= 4 /\ line[Len(line)] = Ch.nl
  /\ EqPos(line) > 1
  /\ Word(KeyOf(line)) /\ Word(ValOf(line))

\* the name written on a header line
NameOf(line) == SubSeq(line, 2, Len(line) - 2)

\* a well-formed line [name]
IsHeaderLine(line) ==
  /\ Len(line) >= 4 /\ line[Len(line)] = Ch.nl
  /\ line[1] = Ch.lb /\ line[Len(line) - 1] = Ch.rb
  /\ Word(NameOf(line))

\* the section the i-th line belongs to: the name on the nearest header
\* above it, NULL (the default section) when there is none
OwnerOf(lines, i) ==
  LET hs == {j \in 1..(i - 1) : IsHeaderLine(lines[j])} IN
  IF hs = {} THEN NULL
  ELSE NameOf(lines[CHOOSE j \in hs : \A k \in hs : k <= j])

\* only well-formed lines, no header name twice, no key twice in a block
WellFormed(bytes) ==
  LET lines == LinesOf(bytes) IN
  /\ \A i \in 1..Len(lines) : IsPairLine(lines[i]) \/ IsHeaderLine(lines[i])
  /\ \A i, j \in 1..Len(lines) :
       (i < j /\ IsHeaderLine(lines[i]) /\ IsHeaderLine(lines[j]))
         => NameOf(lines[i]) # NameOf(lines[j])
  /\ \A i, j \in 1..Len(lines) :
       (i < j /\ IsPairLine(lines[i]) /\ IsPairLine(lines[j])
          /\ OwnerOf(lines, i) = OwnerOf(lines, j))
         => KeyOf(lines[i]) # KeyOf(lines[j])

\* the (key, value) pairs written in the block of the given section
BlockPairs(bytes, name) ==
  LET lines == LinesOf(bytes) IN
  {<<KeyOf(lines[i]), ValOf(lines[i])>> :
     i \in {j \in 1..Len(lines) : IsPairLine(lines[j]) /\ OwnerOf(lines, j) = name}}

\* the header names written in a text
HeaderNames(bytes) ==
  LET lines == LinesOf(bytes) IN
  {NameOf(lines[i]) : i \in {j \in 1..Len(lines) : IsHeaderLine(lines[j])}}

\* the section holds exactly the given (key, value) pairs, each once
HoldsExactly(sec, pairs) ==
  /\ {<<sec.head[i].key, sec.head[i].val>> : i \in 1..Len(sec.head)} = pairs
  /\ Len(sec.head) = Cardinality(pairs)

\* C12: after a well-formed text with distinct header names and distinct
\* keys per block is parsed into an empty document, the default section
\* holds exactly the pairs above the first header, there is exactly one
\* section per header, and each holds exactly the pairs of its block.
C12_ParseBlocks ==
  (last.op = "loadinifromfile" /\ last.ret = 0 /\ WellFormed(last.file))
    => /\ HoldsExactly(ini.default_section, BlockPairs(last.file, NULL))
       /\ {ini.head[i].name : i \in 1..Len(ini.head)} = HeaderNames(last.file)
       /\ Len(ini.head) = Cardinality(HeaderNames(last.file))
       /\ \A i \in 1..Len(ini.head) :
            HoldsExactly(ini.head[i], BlockPairs(last.file, ini.head[i].name))

\* a well-formed text with a pair above its header and a pair below it has
\* been parsed
C12_Witness ==
  /\ last.op = "loadinifromfile" /\ last.ret = 0 /\ WellFormed(last.file)
  /\ BlockPairs(last.file, NULL) # {}
  /\ \E name \in HeaderNames(last.file) : BlockPairs(last.file, name) # {}

\* C13: after a parse, every name N written on a header of the text, once
\* or several times, names a single section of the document, and
\* ini_getpair(N, key) finds every key written in a block of N, above or
\* below a repeated header [N].
C13_HeaderFetchesExisting ==
  (last.op = "loadinifromfile" /\ last.ret = 0)
    => \A name \in HeaderNames(last.file) :
         /\ NameCount(ini, name) = 1
         /\ \A kv \in BlockPairs(last.file, name) :
              GetVal(ini, name, kv[1]) # NotFound

\* a line 'key = value': one space on each side of the '='
IsSpacedLine(line) ==
  /\ Len(line) >= 6 /\ line[Len(line)] = Ch.nl
  /\ EqPos(line) > 2 /\ EqPos(line) < Len(line) - 2
  /\ line[EqPos(line) - 1] = Ch.sp /\ line[EqPos(line) + 1] = Ch.sp
  /\ Word(SubSeq(line, 1, EqPos(line) - 2))
  /\ Word(SubSeq(line, EqPos(line) + 2, Len(line) - 1))

\* the key and the value written on a line 'key = value'
SpacedKey(line) == SubSeq(line, 1, EqPos(line) - 2)
SpacedVal(line) == SubSeq(line, EqPos(line) + 2, Len(line) - 1)

\* C14: after a text made only of lines 'k = v' is parsed into an empty
\* document, no section holds a pair with key k when
\* INIO_SPACE_AROUND_DELIM is not set (whatever INIO_ALLOW_EMPTY is), and
\* the default section, the current one, holds k with value v when it is set.
C14_SpacedLine ==
  LET lines == LinesOf(last.file) IN
  (/\ last.op = "loadinifromfile" /\ last.ret = 0 /\ lines # <<>>
   /\ \A i \in 1..Len(lines) : IsSpacedLine(lines[i]))
    => \A i \in 1..Len(lines) :
         IF HasFlag(ini.flags, INIO_SPACE_AROUND_DELIM)
         THEN GetVal(ini, NULL, SpacedKey(lines[i])) = SpacedVal(lines[i])
         ELSE \A j \in 1..Len(AllSections(ini)) :
                KeyCount(AllSections(ini)[j], SpacedKey(lines[i])) = 0

\* a line holding only a key
IsBareLine(line) ==
  /\ Len(line) >= 2 /\ line[Len(line)] = Ch.nl
  /\ Word(SubSeq(line, 1, Len(line) - 1))

\* the key written on a line holding only a key
BareKey(line) == SubSeq(line, 1, Len(line) - 1)

\* the pairs of the document whose value is absent
AbsentPairs(file) ==
  UNION {{sec.head[j] : j \in {k \in 1..Len(sec.head) : sec.head[k].val = NULL}} :
           sec \in {AllSections(file)[i] : i \in 1..Len(AllSections(file))}}

\* C15: after a text made only of bare key lines is parsed into an empty
\* document, the default section, the current one, holds each of these keys
\* with an absent value when INIO_ALLOW_EMPTY is set and the document holds
\* none of them when it is not; and the writer's line for a pair with an
\* absent value is 'key=' when INIO_ALLOW_EMPTY is set, nothing when not.
C15_BareKey ==
  LET lines == LinesOf(last.file) IN
  /\ (/\ last.op = "loadinifromfile" /\ last.ret = 0 /\ lines # <<>>
      /\ \A i \in 1..Len(lines) : IsBareLine(lines[i]))
       => \A i \in 1..Len(lines) :
            IF HasFlag(ini.flags, INIO_ALLOW_EMPTY)
            THEN GetVal(ini, NULL, BareKey(lines[i])) = NULL
            ELSE \A j \in 1..Len(AllSections(ini)) :
                   KeyCount(AllSections(ini)[j], BareKey(lines[i])) = 0
  /\ \A pair \in AbsentPairs(ini) :
       write_pair(pair, ini.flags) =
         IF HasFlag(ini.flags, INIO_ALLOW_EMPTY)
         THEN pair.key \o <<Ch.eq, Ch.nl>>
         ELSE <<>>

\* the texts of a sequence, one after the other
RECURSIVE Join(_)
Join(texts) == IF texts = <<>> THEN <<>> ELSE Head(texts) \o Join(Tail(texts))

\* the pair lines of a section
PairLines(sec, flags) ==
  Join([i \in 1..Len(sec.head) |-> write_pair(sec.head[i], flags)])

\* the text of a named section: header, pair lines, blank line; nothing for
\* a section without pairs
BlockText(sec, flags) ==
  IF Len(sec.head) = 0 THEN <<>>
  ELSE <<Ch.lb>> \o sec.name \o <<Ch.rb, Ch.nl>> \o PairLines(sec, flags) \o <<Ch.nl>>

\* C16: what writeinitofile writes is the default section's pair lines, one
\* blank line, then for each named section in list order its block: header,
\* pair lines and blank line when it holds a pair, nothing when it holds
\* none.
C16_WriterBlocks ==
  (last.op = "writeinitofile" /\ last.ret = 0)
    => last.file =
         PairLines(ini.default_section, ini.flags) \o <<Ch.nl>>
           \o Join([i \in 1..Len(ini.head) |-> BlockText(ini.head[i], ini.flags)])

\* a document with a named section that holds a pair and a named section
\* that holds none has been written, with a pair whose value is absent and
\* INIO_ALLOW_EMPTY not set
C16_Witness ==
  /\ last.op = "writeinitofile" /\ last.ret = 0
  /\ \E i, j \in 1..Len(ini.head) : ini.head[i].head # <<>> /\ ini.head[j].head = <<>>
  /\ AbsentPairs(ini) # {} /\ ~HasFlag(ini.flags, INIO_ALLOW_EMPTY)

\* a line one of the rules of the format recognises under the given options
Recognised(flags, line) ==
  \/ IsHeaderLine(line)
  \/ IsPairLine(line)
  \/ HasFlag(flags, INIO_SPACE_AROUND_DELIM) /\ IsSpacedLine(line)
  \/ HasFlag(flags, INIO_ALLOW_EMPTY) /\ IsBareLine(line)

\* the text without its unrecognised lines
Kept(flags, bytes) ==
  LET lines == LinesOf(bytes) IN
  Join([i \in 1..Len(lines) |->
          IF Recognised(flags, lines[i]) THEN lines[i] ELSE <<>>])

\* the content of a document: per section, default section first, its name
\* and its (key, value) pairs in list order
Content(file) ==
  [i \in 1..Len(AllSections(file)) |->
     LET sec == AllSections(file)[i] IN
     [name |-> sec.name,
      pairs |-> [j \in 1..Len(sec.head) |-> <<sec.head[j].key, sec.head[j].val>>]]]

\* C17: a parse returns 0, and the document it leaves is the one the text
\* without its unrecognised lines gives: an unrecognised line changes
\* nothing and the lines after it are processed as if it were not there.
C17_MalformedDropped ==
  last.op = "loadinifromfile" /\ last.file # <<>>
    => /\ last.ret = 0
       /\ Content(ini) =
            Content(loadinifromfile(makeini(ini.flags),
                                    Kept(ini.flags, last.file), 2).ini)

\* a line '[name' without the closing bracket
IsPartialHeader(line) ==
  /\ Len(line) >= 3 /\ line[Len(line)] = Ch.nl /\ line[1] = Ch.lb
  /\ Word(SubSeq(line, 2, Len(line) - 1))

\* the text without its partial header lines
WithoutPartial(bytes) ==
  LET lines == LinesOf(bytes) IN
  Join([i \in 1..Len(lines) |->
          IF IsPartialHeader(lines[i]) THEN <<>> ELSE lines[i]])

\* C18: the partial header lines of a text neither create a section nor
\* move the current target: after the parse the document has the section
\* names the text without these lines gives, and every key that text puts
\* in a section is found in the section of that name.
C18_PartialHeader ==
  last.op = "loadinifromfile" /\ last.ret = 0
    => LET clean == loadinifromfile(makeini(ini.flags),
                                    WithoutPartial(last.file), 2).ini
       IN /\ {ini.head[i].name : i \in 1..Len(ini.head)}
               = {clean.head[i].name : i \in 1..Len(clean.head)}
          /\ \A i \in 1..Len(AllSections(clean)) :
               \A j \in 1..Len(AllSections(clean)[i].head) :
                 GetVal(ini, AllSections(clean)[i].name,
                        AllSections(clean)[i].head[j].key) # NotFound

\* C19: for every line read, the section name, the key and the value the
\* parser captures take, with their terminating NUL, at most BufSize bytes
\* each: no store goes past the end of tmpsection, tmpkey or tmpval.
C19_FieldsFit ==
  last.op \in {"loadinifromfile", "killed"}
    => \A i \in 1..Len(fgets_lines(last.file)) :
         LET w == StoredBytes(ini.flags, fgets_lines(last.file)[i]) IN
         w.tmpsection <= BufSize /\ w.tmpkey <= BufSize /\ w.tmpval <= BufSize

\* C20: after freeini no block allocated since makeini() is still
\* allocated, and no block was given to free twice.
C20_AllFreedOnce ==
  last.op = "freeini" => heap.live = {} /\ heap.twice = {}

============================================================================
